---- MODULE Spec2Model ----
(***************************************************************************)
(* Room session engine of the word game: GameEngine (shared/game-engine),  *)
(* the PartyKit room Server and GameHandler (party/handlers/game) and the  *)
(* review status rules (useSmartReview).                                   *)
(*                                                                         *)
(* The engine revision under src/ implements joinPlayer, removePlayer,     *)
(* startGame and stopRound.  The operations the Server calls that this     *)
(* revision does not contain (submitAnswers, kickPlayer,                   *)
(* playerDisconnected, checkTimeouts) are modelled from the specification  *)
(* and are marked so in the model map.                                     *)
(***************************************************************************)
EXTENDS Integers, Sequences, FiniteSets, TLC

\* ------------------------------------------------------------------ bounds
\* the clock runs from 0 to MaxTime
MaxTime == 3

\* connection ids that may connect to the room
PlayerIds == {"p1", "p2", "p3"}
\* the ids that connect while rounds are played and timed (Spec)
RoundIds == {"p1", "p2"}
\* display names given in the connect url ("Guest" is the default)
Names == {"Guest"}
\* answers a client may send; a text is a tuple of characters
Words == { <<"G", "a", "t", "o">> }
\* sampled values of Math.floor(Math.random() * 26)
RandomIndices == {0, 25}

\* ------------------------------------------------------------ null values
NoDeadline == 0
NoLetter == "null"
NoPlayer == "none"

\* ------------------------------------------------------------- room state
Alphabet == <<"A", "B", "C", "D", "E", "F", "G", "H", "I", "J", "K", "L", "M",
              "N", "O", "P", "Q", "R", "S", "T", "U", "V", "W", "X", "Y", "Z">>

\* categories of the round (a sample of the engine's default list)
Categories == {"Color"}

DefaultConfig ==
    [totalRounds |-> 2, roundDuration |-> 1, reviewDuration |-> 1, resultsDuration |-> 1]

NoTimers == [roundEndsAt |-> NoDeadline, votingEndsAt |-> NoDeadline, resultsEndsAt |-> NoDeadline]

\* a text is a tuple of characters; an absent entry reads as the empty text,
\* as every reader does (answers[id]?.[category] || "")
NoAnswers == [p \in PlayerIds |-> [c \in Categories |-> <<>>]]
NoVotes == [p \in PlayerIds |-> [c \in Categories |-> {}]]

\* the state built by the GameEngine constructor
InitialState ==
    [status |-> "LOBBY",
     players |-> <<>>,
     currentLetter |-> NoLetter,
     answers |-> NoAnswers,
     votes |-> NoVotes,
     roundsPlayed |-> 0,
     config |-> DefaultConfig,
     timers |-> NoTimers,
     stoppedBy |-> NoPlayer]

\* ---------------------------------------------------------------- helpers
\* players.find(p => p.id === id): index of the first match, 0 if none
FindIndex(players, id) ==
    IF \E i \in DOMAIN players : players[i].id = id
    THEN CHOOSE i \in DOMAIN players :
            /\ players[i].id = id
            /\ \A j \in DOMAIN players : players[j].id = id => i <= j
    ELSE 0

\* players.filter(p => p.id !== id)
RECURSIVE FilterOut(_, _)
FilterOut(players, id) ==
    IF players = <<>> THEN <<>>
    ELSE IF Head(players).id = id THEN FilterOut(Tail(players), id)
         ELSE <<Head(players)>> \o FilterOut(Tail(players), id)

IsHost(s, id) ==
    LET i == FindIndex(s.players, id) IN i # 0 /\ s.players[i].isHost

\* -------------------------------------------------------- engine (src)
\* mutant: a join with a known id starts the player over
JoinPlayerResetScore(s, id, name) ==
    LET i == FindIndex(s.players, id) IN
    IF i # 0
    THEN [s EXCEPT !.players[i].name = name, !.players[i].score = 0]
    ELSE [s EXCEPT !.players = Append(@,
            [id |-> id, name |-> name, score |-> 0,
             isHost |-> (Len(s.players) = 0), isConnected |-> TRUE])]

\* GameEngine.joinPlayer
JoinPlayer(s, id, name) ==
    LET i == FindIndex(s.players, id) IN
    IF i # 0
    THEN [s EXCEPT !.players[i].name = name]
    ELSE [s EXCEPT !.players = Append(@,
            [id |-> id, name |-> name, score |-> 0,
             isHost |-> (Len(s.players) = 0), isConnected |-> TRUE])]

\* GameEngine.removePlayer
RemovePlayer(s, id) ==
    LET i == FindIndex(s.players, id)
        wasHost == i # 0 /\ s.players[i].isHost
        rest == FilterOut(s.players, id)
        rehosted == IF wasHost /\ Len(rest) > 0
                    THEN [rest EXCEPT ![1].isHost = TRUE]
                    ELSE rest
    IN IF Len(rehosted) = 0
       THEN [s EXCEPT !.players = rehosted, !.status = "LOBBY",
                      !.currentLetter = NoLetter, !.roundsPlayed = 0,
                      !.answers = NoAnswers]
       ELSE [s EXCEPT !.players = rehosted]

\* GameEngine.startGame; idx is Math.floor(Math.random() * 26)
StartGame(s, playerId, idx) ==
    IF IsHost(s, playerId)
    THEN [s EXCEPT !.status = "PLAYING",
                   !.currentLetter = Alphabet[idx + 1],
                   !.answers = NoAnswers]
    ELSE s

\* GameEngine.stopRound
StopRound(s, playerId) ==
    IF FindIndex(s.players, playerId) # 0
    THEN [s EXCEPT !.status = "REVIEW"]
    ELSE s

\* ------------------------------------------------- review status (src)
\* str.trim()
RECURSIVE TrimLeft(_)
TrimLeft(str) ==
    IF str # <<>> /\ Head(str) = " " THEN TrimLeft(Tail(str)) ELSE str

RECURSIVE TrimRight(_)
TrimRight(str) ==
    IF str # <<>> /\ str[Len(str)] = " "
    THEN TrimRight(SubSeq(str, 1, Len(str) - 1))
    ELSE str

Trim(str) == TrimRight(TrimLeft(str))

\* toLowerCase of one character; "E'" and "e'" stand for the accented letters
LowerChar(ch) ==
    CASE ch = "G" -> "g"
      [] ch = "A" -> "a"
      [] ch = "T" -> "t"
      [] ch = "O" -> "o"
      [] ch = "C" -> "c"
      [] ch = "F" -> "f"
      [] ch = "E" -> "e"
      [] ch = "E'" -> "e'"
      [] OTHER -> ch

\* normalize("NFD") followed by the removal of the combining marks
StripChar(ch) ==
    CASE ch = "e'" -> "e"
      [] ch = "E'" -> "E"
      [] OTHER -> ch

\* a combining mark typed on its own (U+0301); trim does not take it for a space
Mark == "'"

\* replace(/[\u0300-\u036f]/g, ""): the combining marks are dropped
RECURSIVE RemoveMarks(_)
RemoveMarks(str) ==
    IF str = <<>> THEN <<>>
    ELSE IF Head(str) = Mark THEN RemoveMarks(Tail(str))
         ELSE <<Head(str)>> \o RemoveMarks(Tail(str))

\* normalize in useSmartReview
Normalize(str) ==
    LET t == Trim(str) IN RemoveMarks([i \in DOMAIN t |-> StripChar(LowerChar(t[i]))])

AnswerOf(s, playerId, category) == s.answers[playerId][category]
VotesOf(s, playerId, category) == s.votes[playerId][category]

ActivePlayersCount(s) ==
    Cardinality({i \in DOMAIN s.players : s.players[i].isConnected})

Max(a, b) == IF a >= b THEN a ELSE b

\* mutant: half of the rivals, rounded up (the earlier rule of the composable)
RejectionThresholdHalfRivals(s) ==
    LET rivalsCount == Max(1, ActivePlayersCount(s) - 1)
    IN (rivalsCount + 1) \div 2

RejectionThreshold(s) ==
    LET juryPoolSize == Max(1, ActivePlayersCount(s) - 1)
    IN (juryPoolSize \div 2) + 1

\* the duplicate loop of getPlayerStatus: the other players' answers are read in
\* the category on display (currentCategory), the judged answer in `category`
IsDuplicate(s, currentCategory, playerId, category) ==
    \E i \in DOMAIN s.players :
        /\ s.players[i].id # playerId
        /\ AnswerOf(s, s.players[i].id, currentCategory) # <<>>
        /\ Normalize(AnswerOf(s, s.players[i].id, currentCategory))
              = Normalize(AnswerOf(s, playerId, category))

\* mutant: the duplicate check comes before the vote count
GetPlayerStatusDuplicateFirst(s, currentCategory, playerId, category) ==
    LET answer == AnswerOf(s, playerId, category)
        voteCount == Cardinality(VotesOf(s, playerId, category))
    IN IF answer = <<>> \/ Trim(answer) = <<>>
       THEN [state |-> "EMPTY", score |-> 0]
       ELSE IF IsDuplicate(s, currentCategory, playerId, category)
       THEN [state |-> "DUPLICATE", score |-> 50]
       ELSE IF voteCount >= RejectionThreshold(s)
       THEN [state |-> "REJECTED", score |-> 0]
       ELSE [state |-> "VALID", score |-> 100]

\* useSmartReview.getPlayerStatus(playerId, categoryOverride)
GetPlayerStatus(s, currentCategory, playerId, category) ==
    LET answer == AnswerOf(s, playerId, category)
        voteCount == Cardinality(VotesOf(s, playerId, category))
    IN IF answer = <<>> \/ Trim(answer) = <<>>
       THEN [state |-> "EMPTY", score |-> 0]
       ELSE IF voteCount >= RejectionThreshold(s)
       THEN [state |-> "REJECTED", score |-> 0]
       ELSE IF IsDuplicate(s, currentCategory, playerId, category)
       THEN [state |-> "DUPLICATE", score |-> 50]
       ELSE [state |-> "VALID", score |-> 100]

\* ------------------------------------- engine operations not under src
\* each returns [ok, state, error]; a failed operation leaves state as it was
Accept(s) == [ok |-> TRUE, state |-> s, error |-> "none"]
Reject(s, why) == [ok |-> FALSE, state |-> s, error |-> why]

\* mutant: the answers of a known player are merged in any phase
SubmitAnswersAnyPhase(s, playerId, partial) ==
    IF FindIndex(s.players, playerId) = 0 THEN Reject(s, "UnknownPlayer")
    ELSE Accept([s EXCEPT !.answers[playerId] =
            [c \in DOMAIN @ |-> IF c \in DOMAIN partial THEN partial[c] ELSE @[c]]])

\* submitAnswers(playerId, answersPartial): merge, last write wins per category
SubmitAnswers(s, playerId, partial) ==
    IF FindIndex(s.players, playerId) = 0 THEN Reject(s, "UnknownPlayer")
    ELSE IF s.status # "PLAYING" THEN Reject(s, "InvalidPhase")
    ELSE Accept([s EXCEPT !.answers[playerId] =
            [c \in DOMAIN @ |-> IF c \in DOMAIN partial THEN partial[c] ELSE @[c]]])

\* index of the earliest-joined connected player other than id, 0 if none
EarliestConnected(players, id) ==
    IF \E i \in DOMAIN players : players[i].id # id /\ players[i].isConnected
    THEN CHOOSE i \in DOMAIN players :
            /\ players[i].id # id /\ players[i].isConnected
            /\ \A j \in DOMAIN players :
                  (players[j].id # id /\ players[j].isConnected) => i <= j
    ELSE 0

\* playerDisconnected(id): soft removal, the host flag moves at once
PlayerDisconnected(s, id) ==
    LET i == FindIndex(s.players, id)
        h == EarliestConnected(s.players, id)
    IN IF i = 0 THEN s
       ELSE IF s.players[i].isHost /\ h # 0
       THEN [s EXCEPT !.players[i].isConnected = FALSE,
                      !.players[i].isHost = FALSE,
                      !.players[h].isHost = TRUE]
       ELSE [s EXCEPT !.players[i].isConnected = FALSE]

\* kickPlayer(requesterId, targetId): host only, never oneself
KickPlayer(s, requesterId, targetId) ==
    IF ~IsHost(s, requesterId) \/ requesterId = targetId
    THEN Reject(s, "Unauthorized")
    ELSE Accept(RemovePlayer(s, targetId))

\* mutant: a vote once cast is never taken back
ToggleVoteAddOnly(s, voterId, targetId, category) ==
    IF voterId = targetId THEN Reject(s, "SelfVote")
    ELSE IF FindIndex(s.players, voterId) = 0 \/ FindIndex(s.players, targetId) = 0
    THEN Reject(s, "UnknownPlayer")
    ELSE IF s.status # "REVIEW" THEN Reject(s, "InvalidPhase")
    ELSE Accept([s EXCEPT !.votes[targetId][category] = @ \cup {voterId}])

\* toggleVote(voterId, targetId, category): add the voter if absent, remove it
\* if present; REVIEW only, never on oneself
ToggleVote(s, voterId, targetId, category) ==
    IF voterId = targetId THEN Reject(s, "SelfVote")
    ELSE IF FindIndex(s.players, voterId) = 0 \/ FindIndex(s.players, targetId) = 0
    THEN Reject(s, "UnknownPlayer")
    ELSE IF s.status # "REVIEW" THEN Reject(s, "InvalidPhase")
    ELSE Accept([s EXCEPT !.votes[targetId][category] =
            IF voterId \in @ THEN @ \ {voterId} ELSE @ \cup {voterId}])

\* partialConfig merged over the configuration
MergeConfig(config, partialConfig) ==
    [f \in DOMAIN config |->
        IF f \in DOMAIN partialConfig THEN partialConfig[f] ELSE config[f]]

\* mutant: the merged values are not validated
UpdateConfigUnvalidated(s, requesterId, partialConfig) ==
    IF ~IsHost(s, requesterId) THEN Reject(s, "Unauthorized")
    ELSE IF s.status # "LOBBY" THEN Reject(s, "InvalidPhase")
    ELSE Accept([s EXCEPT !.config = MergeConfig(@, partialConfig)])

\* updateConfig(requesterId, partialConfig): host only, LOBBY only, every
\* numeric field positive
UpdateConfig(s, requesterId, partialConfig) ==
    IF ~IsHost(s, requesterId) THEN Reject(s, "Unauthorized")
    ELSE IF s.status # "LOBBY" THEN Reject(s, "InvalidPhase")
    ELSE IF \E f \in DOMAIN partialConfig : partialConfig[f] <= 0
    THEN Reject(s, "InvalidConfig")
    ELSE Accept([s EXCEPT !.config = MergeConfig(@, partialConfig)])

\* mutant: a confirmation by the only connected player ends the review at once
ConfirmVotesEndsReview(s, playerId) ==
    IF s.status = "REVIEW"
       /\ \A i \in DOMAIN s.players :
              s.players[i].isConnected => s.players[i].id = playerId
    THEN Accept([s EXCEPT !.status = "RESULTS",
                          !.timers = [NoTimers EXCEPT !.resultsEndsAt =
                                         s.timers.votingEndsAt + s.config.resultsDuration]])
    ELSE Accept(s)

\* confirmVotes(playerId): advisory; the mark is kept by the client that sent
\* it (hasConfirmed), the room state carries no field for it
ConfirmVotes(s, playerId) == Accept(s)

\* mutant: every non-empty answer counts in full, whatever its classification
SumPointsUnjudged(s, playerId, cats) ==
    100 * Cardinality({c \in cats : AnswerOf(s, playerId, c) # <<>>})

\* the round score of a player: the sum of its points over the categories
RECURSIVE SumPoints(_, _, _)
SumPoints(s, playerId, cats) ==
    IF cats = {} THEN 0
    ELSE LET c == CHOOSE x \in cats : TRUE
         IN GetPlayerStatus(s, c, playerId, c).score + SumPoints(s, playerId, cats \ {c})

\* checkTimeouts(): [changed, state]; changed = FALSE stands for the null result
CheckTimeouts(s, now, idx) ==
    IF s.status = "PLAYING" /\ s.timers.roundEndsAt # NoDeadline
                            /\ now >= s.timers.roundEndsAt
    THEN [changed |-> TRUE,
          state |-> [s EXCEPT !.status = "REVIEW", !.stoppedBy = NoPlayer,
                       !.timers = [NoTimers EXCEPT
                           !.votingEndsAt = now + s.config.reviewDuration]]]
    ELSE IF s.status = "REVIEW" /\ s.timers.votingEndsAt # NoDeadline
                                /\ now >= s.timers.votingEndsAt
    THEN [changed |-> TRUE,
          state |-> [s EXCEPT !.status = "RESULTS",
                       !.players = [i \in DOMAIN s.players |->
                           [s.players[i] EXCEPT !.score =
                               @ + SumPoints(s, s.players[i].id, Categories)]],
                       !.roundsPlayed = @ + 1,
                       !.stoppedBy = NoPlayer,
                       !.timers = [NoTimers EXCEPT
                           !.resultsEndsAt = now + s.config.resultsDuration]]]
    ELSE IF s.status = "RESULTS" /\ s.timers.resultsEndsAt # NoDeadline
                                 /\ now >= s.timers.resultsEndsAt
                                 /\ s.roundsPlayed < s.config.totalRounds
    THEN [changed |-> TRUE,
          state |-> [s EXCEPT !.status = "PLAYING",
                       !.currentLetter = Alphabet[idx + 1],
                       !.answers = NoAnswers, !.votes = NoVotes,
                       !.stoppedBy = NoPlayer,
                       !.timers = [NoTimers EXCEPT
                           !.roundEndsAt = now + s.config.roundDuration]]]
    ELSE [changed |-> FALSE, state |-> s]

\* ------------------------------------------------------- session actor
\* A handler is one step: the room is a single-threaded actor, and the awaits
\* of a handler are storage operations (put, setAlarm), during which the
\* platform delivers no other event of the room.
VARIABLES
    state,      \* engine.state, the RoomState
    stored,     \* room.storage under STORAGE_KEY: <<>> or <<blob>>
    alarm,      \* the room's single storage alarm, NoDeadline when not armed
    now,        \* Date.now()
    conns,      \* ids of the open connections of the room
    out         \* the last handler run and what it sent

vars == <<state, stored, alarm, now, conns, out>>

\* a handler that sends nothing
Silent(op) ==
    [op |-> op, kind |-> "none", to |-> "nobody",
     payload |-> <<>>, message |-> "none"]
\* broadcastState(room, s)
BroadcastState(op, s) ==
    [op |-> op, kind |-> "UPDATE_STATE", to |-> "all",
     payload |-> <<s>>, message |-> "none"]
\* sendError(connection, message)
SendError(op, id, why) ==
    [op |-> op, kind |-> "ERROR", to |-> id,
     payload |-> <<>>, message |-> why]

\* mutant: the results deadline is not looked at
ScheduleAlarmsNoResults(s, armed, t) ==
    LET nextTarget ==
            IF s.status = "PLAYING" /\ s.timers.roundEndsAt # NoDeadline
            THEN s.timers.roundEndsAt
            ELSE IF s.status = "REVIEW" /\ s.timers.votingEndsAt # NoDeadline
            THEN s.timers.votingEndsAt
            ELSE NoDeadline
    IN IF nextTarget # NoDeadline /\ nextTarget > t THEN nextTarget ELSE armed

\* Server.scheduleAlarms(s): the alarm armed after the call
ScheduleAlarms(s, armed, t) ==
    LET nextTarget ==
            IF s.status = "PLAYING" /\ s.timers.roundEndsAt # NoDeadline
            THEN s.timers.roundEndsAt
            ELSE IF s.status = "REVIEW" /\ s.timers.votingEndsAt # NoDeadline
            THEN s.timers.votingEndsAt
            ELSE IF s.status = "RESULTS" /\ s.timers.resultsEndsAt # NoDeadline
            THEN s.timers.resultsEndsAt
            ELSE NoDeadline
    IN IF nextTarget # NoDeadline /\ nextTarget > t THEN nextTarget ELSE armed

\* a room written by an earlier activation: a round in play, its alarm armed
PlayingBlob ==
    [InitialState EXCEPT
        !.status = "PLAYING",
        !.players = << [id |-> "p1", name |-> "Guest", score |-> 0,
                        isHost |-> TRUE, isConnected |-> TRUE],
                       [id |-> "p2", name |-> "Guest", score |-> 0,
                        isHost |-> FALSE, isConnected |-> TRUE] >>,
        !.currentLetter = "A",
        !.timers = [NoTimers EXCEPT !.roundEndsAt = DefaultConfig.roundDuration]]

StoredBlobs == { <<>>, <<PlayingBlob>> }

\* constructor and Server.onStart: hydrate from storage if a blob exists
Init ==
    /\ stored \in StoredBlobs
    /\ state = IF stored = <<>> THEN InitialState ELSE stored[1]
    /\ alarm = IF stored = <<>> THEN NoDeadline
               ELSE ScheduleAlarms(stored[1], NoDeadline, 0)
    /\ conns = IF stored = <<>> THEN {}
               ELSE {stored[1].players[i].id : i \in DOMAIN stored[1].players}
    /\ now = 0
    /\ out = Silent("onStart")

\* mutant: the broadcast is built from the state read before the engine call
PersistScheduleBroadcastStale(op, s) ==
    /\ state' = s
    /\ stored' = <<s>>
    /\ alarm' = ScheduleAlarms(s, alarm, now)
    /\ out' = BroadcastState(op, state)

\* the tail of Server.onMessage when hasChanges: put, scheduleAlarms, broadcast
PersistScheduleBroadcast(op, s) ==
    /\ state' = s
    /\ stored' = <<s>>
    /\ alarm' = ScheduleAlarms(s, alarm, now)
    /\ out' = BroadcastState(op, s)

\* GameHandler.persistAndBroadcast
PersistAndBroadcast(op, s) ==
    /\ state' = s
    /\ stored' = <<s>>
    /\ out' = BroadcastState(op, s)
    /\ UNCHANGED alarm

\* the catch of Server.onMessage and of the GameHandler methods
Failed(op, by, why) ==
    /\ out' = SendError(op, by, why)
    /\ UNCHANGED <<state, stored, alarm>>

\* Server.onConnect
OnConnect(id, name) ==
    /\ id \notin conns
    /\ conns' = conns \cup {id}
    /\ LET s == JoinPlayer(state, id, name) IN
        /\ state' = s
        /\ stored' = <<s>>
        /\ out' = BroadcastState("onConnect", s)
    /\ UNCHANGED <<alarm, now>>

\* Server.onMessage, case START_GAME
OnStartGame(sender, idx) ==
    /\ sender \in conns
    /\ PersistScheduleBroadcast("START_GAME", StartGame(state, sender, idx))
    /\ UNCHANGED <<now, conns>>

\* Server.onMessage, case STOP_ROUND
OnStopRound(sender) ==
    /\ sender \in conns
    /\ PersistScheduleBroadcast("STOP_ROUND", StopRound(state, sender))
    /\ UNCHANGED <<now, conns>>

\* mutant: the payload replaces the answers of the sender
OnSubmitAnswersOverwrite(sender, partial) ==
    /\ sender \in conns
    /\ LET r == SubmitAnswers(state, sender, partial) IN
        IF r.ok
        THEN PersistScheduleBroadcast("SUBMIT_ANSWERS",
                [state EXCEPT !.answers[sender] =
                    [c \in DOMAIN @ |->
                        IF c \in DOMAIN partial THEN partial[c] ELSE <<>>]])
        ELSE Failed("SUBMIT_ANSWERS", sender, r.error)
    /\ UNCHANGED <<now, conns>>

\* Server.onMessage, case SUBMIT_ANSWERS
OnSubmitAnswers(sender, partial) ==
    /\ sender \in conns
    /\ LET r == SubmitAnswers(state, sender, partial) IN
        IF r.ok THEN PersistScheduleBroadcast("SUBMIT_ANSWERS", r.state)
        ELSE Failed("SUBMIT_ANSWERS", sender, r.error)
    /\ UNCHANGED <<now, conns>>

\* mutant: the failure of kickPlayer is not caught, the handler goes on
OnKickPlayerUncaught(sender, targetUserId) ==
    /\ sender \in conns
    /\ PersistScheduleBroadcast("KICK_PLAYER",
           RemovePlayer(state, targetUserId))
    /\ UNCHANGED <<now, conns>>

\* Server.onMessage, case KICK_PLAYER
OnKickPlayer(sender, targetUserId) ==
    /\ sender \in conns
    /\ LET r == KickPlayer(state, sender, targetUserId) IN
        IF r.ok THEN PersistScheduleBroadcast("KICK_PLAYER", r.state)
        ELSE Failed("KICK_PLAYER", sender, r.error)
    /\ UNCHANGED <<now, conns>>

\* Server.onMessage, case UPDATE_CONFIG
OnUpdateConfig(sender, payload) ==
    /\ sender \in conns
    /\ LET r == UpdateConfig(state, sender, payload) IN
        IF r.ok THEN PersistScheduleBroadcast("UPDATE_CONFIG", r.state)
        ELSE Failed("UPDATE_CONFIG", sender, r.error)
    /\ UNCHANGED <<now, conns>>

\* Server.onMessage, case CONFIRM_VOTES
OnConfirmVotes(sender) ==
    /\ sender \in conns
    /\ LET r == ConfirmVotes(state, sender) IN
        IF r.ok THEN PersistScheduleBroadcast("CONFIRM_VOTES", r.state)
        ELSE Failed("CONFIRM_VOTES", sender, r.error)
    /\ UNCHANGED <<now, conns>>

\* mutant: the failure of the engine call is not caught
OnToggleVoteUncaught(sender, targetUserId, category) ==
    /\ sender \in conns
    /\ PersistScheduleBroadcast("TOGGLE_VOTE",
           ToggleVote(state, sender, targetUserId, category).state)
    /\ UNCHANGED <<now, conns>>

\* Server.onMessage, case TOGGLE_VOTE
OnToggleVote(sender, targetUserId, category) ==
    /\ sender \in conns
    /\ LET r == ToggleVote(state, sender, targetUserId, category) IN
        IF r.ok THEN PersistScheduleBroadcast("TOGGLE_VOTE", r.state)
        ELSE Failed("TOGGLE_VOTE", sender, r.error)
    /\ UNCHANGED <<now, conns>>

\* GameHandler.handleStartGame
HandleStartGame(sender, idx) ==
    /\ sender \in conns
    /\ PersistAndBroadcast("START_GAME", StartGame(state, sender, idx))
    /\ UNCHANGED <<now, conns>>

\* GameHandler.handleStopRound
HandleStopRound(sender) ==
    /\ sender \in conns
    /\ PersistAndBroadcast("STOP_ROUND", StopRound(state, sender))
    /\ UNCHANGED <<now, conns>>

\* GameHandler.handleSubmitAnswers
HandleSubmitAnswers(sender, partial) ==
    /\ sender \in conns
    /\ LET r == SubmitAnswers(state, sender, partial) IN
        IF r.ok THEN PersistAndBroadcast("SUBMIT_ANSWERS", r.state)
        ELSE Failed("SUBMIT_ANSWERS", sender, r.error)
    /\ UNCHANGED <<now, conns>>

\* mutant: the null result of checkTimeouts is not tested
OnAlarmNoGuard(idx) ==
    /\ alarm # NoDeadline
    /\ now >= alarm
    /\ LET r == CheckTimeouts(state, now, idx) IN
        /\ state' = r.state
        /\ stored' = <<r.state>>
        /\ alarm' = ScheduleAlarms(r.state, NoDeadline, now)
        /\ out' = BroadcastState("onAlarm", r.state)
    /\ UNCHANGED <<now, conns>>

\* Server.onAlarm: the armed alarm fires at its deadline and is consumed
OnAlarm(idx) ==
    /\ alarm # NoDeadline
    /\ now >= alarm
    /\ LET r == CheckTimeouts(state, now, idx) IN
        IF r.changed
        THEN /\ state' = r.state
             /\ stored' = <<r.state>>
             /\ alarm' = ScheduleAlarms(r.state, NoDeadline, now)
             /\ out' = BroadcastState("onAlarm", r.state)
        ELSE /\ alarm' = NoDeadline
             /\ out' = Silent("onAlarm")
             /\ UNCHANGED <<state, stored>>
    /\ UNCHANGED <<now, conns>>

\* mutant: the state is broadcast before the engine call
OnCloseStale(id) ==
    /\ id \in conns
    /\ conns' = conns \ {id}
    /\ state' = PlayerDisconnected(state, id)
    /\ out' = BroadcastState("onClose", state)
    /\ UNCHANGED <<stored, alarm, now>>

\* Server.onClose
OnClose(id) ==
    /\ id \in conns
    /\ conns' = conns \ {id}
    /\ LET s == PlayerDisconnected(state, id) IN
        /\ state' = s
        /\ out' = BroadcastState("onClose", s)
    /\ UNCHANGED <<stored, alarm, now>>

\* the clock is read only against the deadlines: it advances while an alarm is
\* pending, and the alarm fires no later than the tick of its deadline
Tick ==
    /\ now < MaxTime
    /\ alarm # NoDeadline /\ now < alarm
    /\ now' = now + 1
    /\ UNCHANGED <<state, stored, alarm, conns, out>>

\* the payloads of SUBMIT_ANSWERS: a text for some of the categories
Partials == UNION { [cs -> Words \cup {<<>>}] : cs \in SUBSET Categories }

Next ==
    \/ \E id \in RoundIds, name \in Names : OnConnect(id, name)
    \/ \E id \in RoundIds, idx \in RandomIndices : OnStartGame(id, idx)
    \/ \E id \in RoundIds : OnStopRound(id)
    \/ \E id \in RoundIds, partial \in Partials : OnSubmitAnswers(id, partial)
    \/ \E id \in RoundIds, target \in RoundIds : OnKickPlayer(id, target)
    \/ \E id \in RoundIds, idx \in RandomIndices : HandleStartGame(id, idx)
    \/ \E id \in RoundIds : HandleStopRound(id)
    \/ \E id \in RoundIds, partial \in Partials : HandleSubmitAnswers(id, partial)
    \/ \E idx \in RandomIndices : OnAlarm(idx)
    \/ \E id \in RoundIds : OnClose(id)
    \/ Tick

\* the room from its first activation, rounds played and timed by two players
Spec == Init /\ [][Next]_vars

\* a fresh room of three players: connections, kicks and the untimed messages
LobbyInit == Init /\ stored = <<>>

LobbyNext ==
    \/ \E id \in PlayerIds, name \in Names : OnConnect(id, name)
    \/ \E id \in PlayerIds : OnClose(id)
    \/ \E id \in PlayerIds, target \in PlayerIds : OnKickPlayer(id, target)
    \/ \E id \in PlayerIds, idx \in RandomIndices : OnStartGame(id, idx)
    \/ \E id \in PlayerIds : OnStopRound(id)

LobbySpec == LobbyInit /\ [][LobbyNext]_vars

\* answers held when a review starts
ReviewWords == { <<"G", "a", "t", "o">>, <<" ", "g", "a", "t", "o">>,
                 <<"F", "o", "c", "a">> }

\* rooms written by an earlier activation in REVIEW: three players, the answers
\* of the round, no vote yet, the voting deadline armed
ReviewBlobs ==
    { [InitialState EXCEPT
          !.status = "REVIEW",
          !.players = [i \in 1..3 |->
              [id |-> <<"p1", "p2", "p3">>[i], name |-> "Guest", score |-> 0,
               isHost |-> (i = 1), isConnected |-> TRUE]],
          !.currentLetter = "G",
          !.answers = [p \in PlayerIds |-> [c \in Categories |->
              IF p = "p1" THEN <<"G", "a", "t", "o">>
              ELSE IF p = "p2" THEN a2 ELSE a3]],
          !.roundsPlayed = rp,
          !.timers = [NoTimers EXCEPT !.votingEndsAt = DefaultConfig.reviewDuration]]
      : a2 \in ReviewWords \ {<<"G", "a", "t", "o">>},
        a3 \in {<<"F", "o", "c", "a">>, <<>>},
        rp \in {DefaultConfig.totalRounds - 2, DefaultConfig.totalRounds - 1} }

\* the connections that close during the review
LeavingIds == {"p3"}

ReviewInit ==
    /\ stored \in {<<b>> : b \in ReviewBlobs}
    /\ state = stored[1]
    /\ alarm = ScheduleAlarms(stored[1], NoDeadline, 0)
    /\ conns = PlayerIds
    /\ now = 0
    /\ out = Silent("onStart")

ReviewNext ==
    \/ \E id \in PlayerIds, target \in PlayerIds, c \in Categories :
          OnToggleVote(id, target, c)
    \/ \E id \in LeavingIds : OnClose(id)
    \/ \E id \in PlayerIds, idx \in RandomIndices : OnStartGame(id, idx)
    \/ \E idx \in RandomIndices : OnAlarm(idx)
    \/ Tick

\* a room rehydrated in REVIEW: votes, the review and results deadlines
ReviewSpec == ReviewInit /\ [][ReviewNext]_vars

\* ------------------------------------------- development server (mock)
\* party/mock-server.js keeps a room of {status, players}; the player id is the
\* id of the socket, and every JOIN of a socket is handled the same way
MaxMockPlayers == 4

\* getOrCreateRoom: the room created on first use
MockRoom == [status |-> "LOBBY", players |-> <<>>]

MockInit ==
    /\ state = MockRoom
    /\ stored = <<>>
    /\ alarm = NoDeadline
    /\ conns = {}
    /\ now = 0
    /\ out = Silent("listen")

\* wss.on('connection'): the socket is registered and is sent the room state
MockConnection(id) ==
    /\ id \notin conns
    /\ conns' = conns \cup {id}
    /\ out' = [op |-> "connection", kind |-> "UPDATE_STATE", to |-> id,
               payload |-> <<state>>, message |-> "none"]
    /\ UNCHANGED <<state, stored, alarm, now>>

\* ws.on('message') with type JOIN
MockJoin(id, name) ==
    /\ id \in conns
    /\ Len(state.players) < MaxMockPlayers
    /\ LET newPlayer == [id |-> id, name |-> name, score |-> 0,
                         isHost |-> (Len(state.players) = 0)]
           currentRoom == [state EXCEPT !.players = Append(@, newPlayer)]
       IN /\ state' = currentRoom
          /\ out' = BroadcastState("JOIN", currentRoom)
    /\ UNCHANGED <<stored, alarm, now, conns>>

\* ws.on('close'): the player is removed; an empty room is deleted
MockClose(id) ==
    /\ id \in conns
    /\ conns' = conns \ {id}
    /\ LET i == FindIndex(state.players, id)
           wasHost == i # 0 /\ state.players[i].isHost
           rest == FilterOut(state.players, id)
           rehosted == IF wasHost /\ Len(rest) > 0
                       THEN [rest EXCEPT ![1].isHost = TRUE]
                       ELSE rest
       IN IF Len(rehosted) = 0
          THEN /\ state' = MockRoom
               /\ out' = Silent("close")
          ELSE /\ state' = [state EXCEPT !.players = rehosted]
               /\ out' = BroadcastState("close", state')
    /\ UNCHANGED <<stored, alarm, now>>

MockNext ==
    \/ \E id \in PlayerIds : MockConnection(id)
    \/ \E id \in PlayerIds, name \in Names : MockJoin(id, name)
    \/ \E id \in PlayerIds : MockClose(id)

\* the development server with up to three sockets
MockSpec == MockInit /\ [][MockNext]_vars

\* ------------------------------------------------ review screen (client)
\* GameView evaluates getPlayerStatus on the room state it last received
ScoreIds == PlayerIds \cup {"p4"}
ScoreCategories == {"Color", "Fruta"}

\* the vote sets sampled for the judged answers, one of each size
ScoreVotes == { {}, {"p2"}, {"p2", "p3"}, {"p2", "p3", "p4"} }

\* room states received in REVIEW: four players, each connected or not, the
\* answers of p1 and p2 in the two categories, the votes on p1's answers
ScoringStates ==
    { [InitialState EXCEPT
          !.status = "REVIEW",
          !.players = [i \in 1..4 |->
              [id |-> <<"p1", "p2", "p3", "p4">>[i], name |-> "Guest", score |-> 0,
               isHost |-> (i = 1), isConnected |-> conn[i]]],
          !.currentLetter = "G",
          !.answers = [p \in ScoreIds |-> [c \in ScoreCategories |->
              IF p = "p1" THEN (IF c = "Color" THEN a1 ELSE b1)
              ELSE IF p = "p2" THEN (IF c = "Color" THEN a2 ELSE b2)
              ELSE <<>>]],
          !.votes = [p \in ScoreIds |-> [c \in ScoreCategories |->
              IF p = "p1" THEN (IF c = "Color" THEN v1 ELSE w1) ELSE {}]],
          !.timers = [NoTimers EXCEPT !.votingEndsAt = DefaultConfig.reviewDuration]]
      : conn \in [1..4 -> BOOLEAN],
        a1 \in {<<>>, <<" ">>, <<"G", "a", "t", "o">>, <<" ", "g", "a", "t", "o">>,
                <<Mark>>},
        b1 \in {<<>>, <<"G", "a", "t", "o">>},
        a2 \in {<<>>, <<" ">>, <<"G", "a", "t", "o">>, <<"F", "o", "c", "a">>},
        b2 \in {<<>>, <<"G", "a", "t", "o">>},
        v1 \in ScoreVotes, w1 \in {{}, {"p2"}} }

ScoringInit ==
    /\ state \in ScoringStates
    /\ stored = <<>>
    /\ alarm = NoDeadline
    /\ conns = {}
    /\ now = 0
    /\ out = Silent("UPDATE_STATE")

\* what an evaluation of getPlayerStatus returned, and for which arguments
Evaluated(currentCategory, playerId, category) ==
    LET r == GetPlayerStatus(state, currentCategory, playerId, category) IN
    [op |-> "getPlayerStatus", kind |-> r.state, to |-> playerId,
     payload |-> <<currentCategory, category, r.score>>, message |-> "none"]

\* getReviewItem(playerId): the status in the category on display
GetReviewItem(currentCategory, playerId) ==
    /\ out' = Evaluated(currentCategory, playerId, currentCategory)
    /\ UNCHANGED <<state, stored, alarm, now, conns>>

\* the results grid: getPlayerStatus(myUserId, category) for each category
GetGridStatus(currentCategory, myUserId, category) ==
    /\ out' = Evaluated(currentCategory, myUserId, category)
    /\ UNCHANGED <<state, stored, alarm, now, conns>>

\* the players whose answers the screen judges
JudgedIds == {"p1", "p2"}

ScoringNext ==
    \/ \E cur \in ScoreCategories, id \in JudgedIds : GetReviewItem(cur, id)
    \/ \E cur \in ScoreCategories, id \in JudgedIds, c \in ScoreCategories :
          GetGridStatus(cur, id, c)

\* the review rules applied to the sampled room states
ScoringSpec == ScoringInit /\ [][ScoringNext]_vars

\* ------------------------------------------------------ comparison keys
\* the spellings of one word: accent, case, surrounding spaces
CafeWords ==
    { <<"C", "a", "f", "e'">>, <<"c", "a", "f", "e">>,
      <<"C", "A", "F", "E'">>, <<" ", "c", "a", "f", "e", " ">> }

\* answers a player may type: the spellings, another word, and a spelling that
\* ends with a space followed by a combining mark
KeyWords ==
    CafeWords \cup { <<"F", "o", "c", "a">>, <<"c", "a", "f", "e", " ", Mark>> }

\* room states received in REVIEW: two connected players and their answers
KeyStates ==
    { [InitialState EXCEPT
          !.status = "REVIEW",
          !.players = [i \in 1..2 |->
              [id |-> <<"p1", "p2">>[i], name |-> "Guest", score |-> 0,
               isHost |-> (i = 1), isConnected |-> TRUE]],
          !.currentLetter = "C",
          !.answers = [p \in ScoreIds |-> [c \in ScoreCategories |->
              IF p = "p1" THEN (IF c = "Color" THEN a1 ELSE b1)
              ELSE IF p = "p2" THEN (IF c = "Color" THEN a2 ELSE b2)
              ELSE <<>>]],
          !.votes = [p \in ScoreIds |-> [c \in ScoreCategories |-> {}]],
          !.timers = [NoTimers EXCEPT !.votingEndsAt = DefaultConfig.reviewDuration]]
      : a1 \in KeyWords, a2 \in KeyWords,
        b1 \in {<<>>, <<"C", "a", "f", "e'">>},
        b2 \in {<<>>, <<"c", "a", "f", "e">>} }

KeyInit ==
    /\ state \in KeyStates
    /\ stored = <<>>
    /\ alarm = NoDeadline
    /\ conns = {}
    /\ now = 0
    /\ out = Silent("UPDATE_STATE")

\* normalize(answer) of the answer of a player in a category
NormalizeAnswer(playerId, category) ==
    /\ out' = [op |-> "normalize", kind |-> "KEY", to |-> playerId,
               payload |-> <<category, AnswerOf(state, playerId, category),
                             Normalize(AnswerOf(state, playerId, category))>>,
               message |-> "none"]
    /\ UNCHANGED <<state, stored, alarm, now, conns>>

KeyNext ==
    \/ \E id \in RoundIds, c \in ScoreCategories : NormalizeAnswer(id, c)
    \/ \E cur \in ScoreCategories, id \in RoundIds : GetReviewItem(cur, id)
    \/ \E cur \in ScoreCategories, id \in RoundIds, c \in ScoreCategories :
          GetGridStatus(cur, id, c)

\* the comparison keys and the statuses of the sampled answers
KeySpec == KeyInit /\ [][KeyNext]_vars

\* ------------------------------------------------- answers of a round
\* a round in play with two categories to fill
SubmitBlob ==
    [PlayingBlob EXCEPT
        !.answers = [p \in PlayerIds |-> [c \in ScoreCategories |-> <<>>]]]

SubmitWords == { <<"G", "a", "t", "o">>, <<"F", "o", "c", "a">> }

\* the payloads of SUBMIT_ANSWERS and of the autosave: some of the categories
SubmitPartials ==
    UNION { [cs -> SubmitWords \cup {<<>>}] : cs \in SUBSET ScoreCategories }

SubmitInit ==
    /\ stored = <<SubmitBlob>>
    /\ state = stored[1]
    /\ alarm = ScheduleAlarms(stored[1], NoDeadline, 0)
    /\ conns = RoundIds
    /\ now = 0
    /\ out = Silent("onStart")

SubmitNext ==
    \/ \E id \in RoundIds, partial \in SubmitPartials : OnSubmitAnswers(id, partial)
    \/ \E id \in RoundIds, partial \in SubmitPartials : HandleSubmitAnswers(id, partial)
    \/ \E id \in RoundIds, target \in RoundIds : OnKickPlayer(id, target)
    \/ \E idx \in RandomIndices : OnAlarm(idx)
    \/ Tick

\* a room rehydrated in PLAYING: the answers sent until the round deadline
SubmitSpec == SubmitInit /\ [][SubmitNext]_vars

\* a round in play that a player stops while the other still sends answers
StopInit == Init /\ stored = <<PlayingBlob>>

StopNext ==
    \/ \E id \in RoundIds, partial \in Partials : OnSubmitAnswers(id, partial)
    \/ \E id \in RoundIds : OnStopRound(id)
    \/ \E id \in RoundIds, target \in RoundIds : OnKickPlayer(id, target)
    \/ \E id \in RoundIds, name \in Names : OnConnect(id, name)
    \/ \E id \in RoundIds : OnClose(id)
    \/ \E idx \in RandomIndices : OnAlarm(idx)
    \/ Tick

StopSpec == StopInit /\ [][StopNext]_vars

\* ------------------------------------------------- malformed messages
\* the message types whose case reads a field of payload before the engine
\* is called: payload.answers, payload.targetUserId
PayloadTypes == {"SUBMIT_ANSWERS", "TOGGLE_VOTE", "STOP_ROUND", "KICK_PLAYER"}

\* inbound texts that fail before the engine is called: one that JSON.parse
\* rejects, and a message of each type above sent without payload
Malformed == {"not JSON"} \cup PayloadTypes

\* mutant: the answers are read with payload?.answers, a STOP_ROUND without
\* payload stops the round
OnMalformedMessageLenient(sender, text) ==
    /\ sender \in conns
    /\ IF text = "STOP_ROUND"
       THEN PersistScheduleBroadcast("STOP_ROUND", StopRound(state, sender))
       ELSE Failed(text, sender, IF text = "not JSON" THEN "SyntaxError" ELSE "TypeError")
    /\ UNCHANGED <<now, conns>>

\* Server.onMessage on a malformed text: JSON.parse or the read of the field
\* throws inside the try, the catch answers the sender
OnMalformedMessage(sender, text) ==
    /\ sender \in conns
    /\ Failed(text, sender, IF text = "not JSON" THEN "SyntaxError" ELSE "TypeError")
    /\ UNCHANGED <<now, conns>>

InboundNext ==
    \/ \E id \in RoundIds, text \in Malformed : OnMalformedMessage(id, text)
    \/ \E id \in RoundIds, partial \in Partials : OnSubmitAnswers(id, partial)
    \/ \E id \in RoundIds : OnStopRound(id)
    \/ \E id \in RoundIds, idx \in RandomIndices : OnStartGame(id, idx)
    \/ \E idx \in RandomIndices : OnAlarm(idx)
    \/ Tick

\* a round in play whose clients also send malformed messages
InboundSpec == StopInit /\ [][InboundNext]_vars

\* ---------------------------------------------------------- reactivation
\* a blob in the layout of the engine revision under src: the fields its
\* constructor and joinPlayer write, without votes, config, timers, stoppedBy
LegacyBlob ==
    [status |-> "LOBBY",
     players |-> << [id |-> "p1", name |-> "Guest", score |-> 0, isHost |-> TRUE] >>,
     currentLetter |-> NoLetter,
     answers |-> NoAnswers,
     roundsPlayed |-> 0]

\* Server.onStart: `if (stored)` keeps the constructor's state, else the blob
Hydrate(blobs) == IF blobs = <<>> THEN InitialState ELSE blobs[1]

HydrateInit ==
    /\ stored \in StoredBlobs \cup { <<LegacyBlob>> }
    /\ state = Hydrate(stored)
    /\ alarm = ScheduleAlarms(state, NoDeadline, 0)
    /\ conns = {}
    /\ now = 0
    /\ out = Silent("onStart")

\* the room is evicted and activated again: constructor, then onStart
Restart ==
    /\ state' = Hydrate(stored)
    /\ out' = Silent("onStart")
    /\ UNCHANGED <<stored, alarm, now, conns>>

HydrateNext ==
    \/ Restart
    \/ \E id \in RoundIds, name \in Names : OnConnect(id, name)
    \/ \E id \in RoundIds, idx \in RandomIndices : HandleStartGame(id, idx)
    \/ \E id \in RoundIds : HandleStopRound(id)
    \/ \E id \in RoundIds, partial \in Partials : HandleSubmitAnswers(id, partial)

\* activations of a room over what its storage may hold
HydrateSpec == HydrateInit /\ [][HydrateNext]_vars

\* --------------------------------------------------- votes of a review
VoteNext ==
    \/ \E id \in PlayerIds, target \in PlayerIds, c \in Categories :
          OnToggleVote(id, target, c)
    \/ \E id \in RoundIds, target \in {"p3"} : OnKickPlayer(id, target)
    \/ \E idx \in RandomIndices : OnAlarm(idx)
    \/ Tick

\* a room rehydrated in REVIEW whose players cast and take back votes
VoteSpec == ReviewInit /\ [][VoteNext]_vars

\* ------------------------------------------------ confirmations of votes
ConfirmNext ==
    \/ \E id \in PlayerIds : OnConfirmVotes(id)
    \/ \E id \in PlayerIds : OnClose(id)
    \/ \E id \in PlayerIds, name \in Names : OnConnect(id, name)
    \/ \E idx \in RandomIndices : OnAlarm(idx)
    \/ Tick

\* a room rehydrated in REVIEW whose players confirm their votes and leave
ConfirmSpec == ReviewInit /\ [][ConfirmNext]_vars

\* ------------------------------------------------ configuration of a game
\* values a client may send for a field of the configuration
ConfigValues == {-1, 0, 3}

\* the payloads of UPDATE_CONFIG: values for one or two fields
ConfigPartials ==
    UNION { [fs -> ConfigValues] :
              fs \in {x \in SUBSET (DOMAIN DefaultConfig) : Cardinality(x) \in {1, 2}} }

ConfigNext ==
    \/ \E id \in RoundIds, name \in Names : OnConnect(id, name)
    \/ \E id \in RoundIds, payload \in ConfigPartials : OnUpdateConfig(id, payload)
    \/ \E id \in RoundIds, idx \in RandomIndices : OnStartGame(id, idx)
    \/ \E id \in RoundIds : OnStopRound(id)
    \/ \E id \in RoundIds : OnClose(id)

\* a fresh room whose players change the configuration and start rounds
ConfigSpec == LobbyInit /\ [][ConfigNext]_vars

\* ------------------------------------------------------- reset of a game
\* reset(): back to the lobby; scores, answers, votes, rounds and letter cleared
Reset(s) ==
    [s EXCEPT !.status = "LOBBY",
              !.players = [i \in DOMAIN s.players |-> [s.players[i] EXCEPT !.score = 0]],
              !.currentLetter = NoLetter,
              !.answers = NoAnswers,
              !.votes = NoVotes,
              !.roundsPlayed = 0,
              !.timers = NoTimers,
              !.stoppedBy = NoPlayer]

\* players.find(p => p.isHost): index of the first host, 0 if none
FindHost(players) ==
    IF \E i \in DOMAIN players : players[i].isHost
    THEN CHOOSE i \in DOMAIN players :
            /\ players[i].isHost
            /\ \A j \in DOMAIN players : players[j].isHost => i <= j
    ELSE 0

\* GameHandler.handleAdminReset
HandleAdminReset(sender) ==
    /\ sender \in conns
    /\ LET host == FindHost(state.players) IN
        IF host = 0 \/ state.players[host].id # sender
        THEN Failed("ADMIN_RESET", sender, "Only the host can reset the game.")
        ELSE PersistAndBroadcast("ADMIN_RESET", Reset(state))
    /\ UNCHANGED <<now, conns>>

\* rooms written by an earlier activation in RESULTS after the first round:
\* two players with points; in one of them no player holds the host flag
ResultsBlobs ==
    { [InitialState EXCEPT
          !.status = "RESULTS",
          !.players = << [id |-> "p1", name |-> "Guest", score |-> 100,
                          isHost |-> hosted, isConnected |-> TRUE],
                         [id |-> "p2", name |-> "Guest", score |-> 50,
                          isHost |-> FALSE, isConnected |-> TRUE] >>,
          !.currentLetter = "A",
          !.roundsPlayed = 1,
          !.timers = [NoTimers EXCEPT !.resultsEndsAt = DefaultConfig.resultsDuration]]
      : hosted \in BOOLEAN }

ResetInit ==
    /\ stored \in {<<b>> : b \in ResultsBlobs}
    /\ state = stored[1]
    /\ alarm = ScheduleAlarms(stored[1], NoDeadline, 0)
    /\ conns = RoundIds
    /\ now = 0
    /\ out = Silent("onStart")

ResetNext ==
    \/ \E id \in RoundIds : HandleAdminReset(id)
    \/ \E id \in RoundIds, name \in Names : OnConnect(id, name)
    \/ \E id \in RoundIds : OnClose(id)
    \/ \E id \in RoundIds, idx \in RandomIndices : OnStartGame(id, idx)
    \/ \E id \in RoundIds : OnStopRound(id)
    \/ \E idx \in RandomIndices : OnAlarm(idx)
    \/ Tick

\* a room rehydrated between two rounds: resets, rejoins and the next round
ResetSpec == ResetInit /\ [][ResetNext]_vars

\* ------------------------------------------------------ scores of a game
\* the value of Math.random() sampled while scores are followed
ScoreIndices == {0}

ScoreInit == ResetInit /\ IsHost(state, "p1")

ScoreNext ==
    \/ \E id \in RoundIds, name \in Names : OnConnect(id, name)
    \/ \E id \in RoundIds : OnClose(id)
    \/ \E id \in RoundIds, idx \in ScoreIndices : OnStartGame(id, idx)
    \/ \E id \in RoundIds, partial \in Partials : OnSubmitAnswers(id, partial)
    \/ \E id \in RoundIds : OnStopRound(id)
    \/ \E id \in RoundIds, target \in RoundIds, c \in Categories :
          OnToggleVote(id, target, c)
    \/ \E id \in RoundIds : HandleAdminReset(id)
    \/ \E idx \in ScoreIndices : OnAlarm(idx)
    \/ Tick

\* a game followed from the results of its first round to those of its second
ScoreSpec == ScoreInit /\ [][ScoreNext]_vars

\* ---------------------------------------------- results of the engine
\* The engine keeps one state object: the constructor assigns this.state once,
\* every operation writes into that object and ends with `return this.state`,
\* so every result is a reference to the same object.  Here `state` is the
\* content of that object and `out` records a call: the reference it returned,
\* the content at the return, and the reference and content of the result of
\* the call before it.
EngineRef == "this.state"

\* what a holder of reference ref reads: the one object of the engine
ReadThrough(ref, s) == s

\* `return this.state` after the operation left content s
Returned(op, s, prev) ==
    [op |-> op, kind |-> "RETURN", to |-> EngineRef,
     payload |-> IF prev.kind = "RETURN"
                 THEN <<s, prev.to, prev.payload[1]>>
                 ELSE <<s>>,
     message |-> "none"]

EngineInit ==
    /\ state = InitialState
    /\ stored = <<>>
    /\ alarm = NoDeadline
    /\ conns = {}
    /\ now = 0
    /\ out = Silent("constructor")

\* a call of an operation of the engine that leaves content s
EngineCall(op, s) ==
    /\ state' = s
    /\ out' = Returned(op, s, out)
    /\ UNCHANGED <<stored, alarm, now, conns>>

\* GameEngine.joinPlayer called by reference
EngineJoinPlayer(id, name) == EngineCall("joinPlayer", JoinPlayer(state, id, name))

\* GameEngine.removePlayer called by reference
EngineRemovePlayer(id) == EngineCall("removePlayer", RemovePlayer(state, id))

\* GameEngine.startGame called by reference
EngineStartGame(id, idx) == EngineCall("startGame", StartGame(state, id, idx))

\* GameEngine.stopRound called by reference
EngineStopRound(id) == EngineCall("stopRound", StopRound(state, id))

\* toggleVote called by reference; a failed call returns nothing
EngineToggleVote(voterId, targetId, category) ==
    LET r == ToggleVote(state, voterId, targetId, category) IN
    /\ r.ok
    /\ EngineCall("toggleVote", r.state)

EngineNext ==
    \/ \E id \in PlayerIds, name \in Names : EngineJoinPlayer(id, name)
    \/ \E id \in RoundIds, target \in RoundIds, c \in Categories :
          EngineToggleVote(id, target, c)
    \/ \E id \in PlayerIds : EngineRemovePlayer(id)
    \/ \E id \in PlayerIds, idx \in RandomIndices : EngineStartGame(id, idx)
    \/ \E id \in PlayerIds : EngineStopRound(id)

\* the operations of the engine called one after the other
EngineSpec == EngineInit /\ [][EngineNext]_vars

\* ------------------------------------------------------- client socket
\* useSocket keeps one socket, one isConnected flag and one lastMessage for
\* the whole page; sockets are numbered in the order setRoomId creates them
MaxSockets == 4
SocketIds == 1..MaxSockets
RoomArgs == {"null", "sala"}
\* socket.value = null
NoSocket == 0

\* const socket = ref(null); const isConnected = ref(false)
\* readyState holds the ready state of every socket created so far
ClientInit ==
    /\ state = [socket |-> NoSocket, isConnected |-> FALSE,
                readyState |-> <<>>]
    /\ stored = <<>>
    /\ alarm = NoDeadline
    /\ conns = {}
    /\ now = 0
    /\ out = Silent("useSocket")

\* socket.close(): a socket that is connecting or open starts closing, its
\* close event is dispatched later
CloseSocket(readyState, k) ==
    [readyState EXCEPT ![k] =
        IF @ \in {"CONNECTING", "OPEN"} THEN "CLOSING" ELSE @]

\* setRoomId(roomId): closes and forgets the socket held, clears the flag,
\* and unless roomId is null creates a socket with its listeners
SetRoomId(roomId) ==
    LET closed == IF state.socket # NoSocket
                  THEN [state EXCEPT
                          !.readyState = CloseSocket(@, state.socket),
                          !.socket = NoSocket,
                          !.isConnected = FALSE]
                  ELSE state
    IN  /\ roomId = "null" => state.socket # NoSocket
        /\ roomId # "null" => Len(state.readyState) < MaxSockets
        /\ state' = IF roomId = "null" THEN closed
                    ELSE [closed EXCEPT
                            !.readyState = Append(@, "CONNECTING"),
                            !.socket = Len(closed.readyState) + 1]
        /\ out' = Silent("setRoomId")
        /\ UNCHANGED <<stored, alarm, now, conns>>

\* addEventListener('open', () => { isConnected.value = true })
SocketOpen(k) ==
    /\ k \in DOMAIN state.readyState
    /\ state.readyState[k] = "CONNECTING"
    /\ state' = [state EXCEPT !.readyState[k] = "OPEN",
                              !.isConnected = TRUE]
    /\ out' = Silent("open")
    /\ UNCHANGED <<stored, alarm, now, conns>>

\* addEventListener('close', () => { isConnected.value = false }): the close
\* event of a socket that was closed, or whose connection was lost
SocketClose(k) ==
    /\ k \in DOMAIN state.readyState
    /\ state.readyState[k] # "CLOSED"
    /\ state' = [state EXCEPT !.readyState[k] = "CLOSED",
                              !.isConnected = FALSE]
    /\ out' = Silent("close")
    /\ UNCHANGED <<stored, alarm, now, conns>>

ClientNext ==
    \/ \E roomId \in RoomArgs : SetRoomId(roomId)
    \/ \E k \in SocketIds : SocketOpen(k)
    \/ \E k \in SocketIds : SocketClose(k)

\* a page that switches rooms up to MaxSockets times
ClientSpec == ClientInit /\ [][ClientNext]_vars

\* ================================================================ claims
\* the timer of the current status, NoDeadline in LOBBY
CurrentDeadline(s) ==
    CASE s.status = "PLAYING" -> s.timers.roundEndsAt
      [] s.status = "REVIEW" -> s.timers.votingEndsAt
      [] s.status = "RESULTS" -> s.timers.resultsEndsAt
      [] OTHER -> NoDeadline

Known(s, id) == FindIndex(s.players, id) # 0

\* C1: the timers match the status: in PLAYING only roundEndsAt is set, in
\* REVIEW only votingEndsAt, in RESULTS only resultsEndsAt, in LOBBY none.
C1_TimersMatchStatus ==
    /\ (state.timers.roundEndsAt # NoDeadline) <=> (state.status = "PLAYING")
    /\ (state.timers.votingEndsAt # NoDeadline) <=> (state.status = "REVIEW")
    /\ (state.timers.resultsEndsAt # NoDeadline) <=> (state.status = "RESULTS")

\* C2: the status changes only along LOBBY -> PLAYING, PLAYING -> REVIEW,
\* REVIEW -> RESULTS, RESULTS -> PLAYING and, by a reset or when the room
\* empties, to LOBBY; a round in play is not started again.
C2_OnlyLifecycleEdges ==
    [][ /\ state'.status # state.status =>
             \/ state.status = "LOBBY" /\ state'.status = "PLAYING"
             \/ state.status = "PLAYING" /\ state'.status = "REVIEW"
             \/ state.status = "REVIEW" /\ state'.status = "RESULTS"
             \/ state.status = "RESULTS" /\ state'.status = "PLAYING"
             \/ state'.status = "LOBBY"
        /\ (state.status = "PLAYING" /\ state'.status = "PLAYING") =>
             state'.currentLetter = state.currentLetter
      ]_vars

\* C3: every transition into a timed phase leaves the alarm armed for that
\* phase's deadline, so a round in play or in review is always driven on by
\* an alarm, whichever path started it.
C3_TimedPhaseHasAlarm ==
    state.status \in {"PLAYING", "REVIEW"} =>
        /\ alarm # NoDeadline
        /\ alarm = CurrentDeadline(state)

\* C4: an alarm that fires when the status it was armed for has no deadline
\* due (the phase has ended, e.g. by a player's stopRound) changes neither the
\* room state nor the stored blob and broadcasts nothing.
C4_StaleAlarmIsNoOp ==
    [][ \A idx \in RandomIndices :
          ( /\ OnAlarm(idx)
            /\ \/ CurrentDeadline(state) = NoDeadline
               \/ CurrentDeadline(state) > now )
          => /\ state' = state
             /\ stored' = stored
             /\ out'.kind = "none"
      ]_vars

\* C4 witness: the round alarm has fired in REVIEW, after a stopRound, and
\* was dropped without a broadcast
C4_Witness ==
    /\ out = Silent("onAlarm")
    /\ state.status = "REVIEW"
    /\ state.timers.roundEndsAt # NoDeadline
    /\ state.timers.roundEndsAt <= now
    /\ state.timers.votingEndsAt = NoDeadline

\* C5: of two STOP_ROUND messages of one round only the first is applied: it
\* moves the room to REVIEW and records the caller as stoppedBy; one that
\* arrives when the status is not PLAYING fails with InvalidPhase and changes
\* nothing.
C5_FirstStopWins ==
    [][ \A id \in PlayerIds :
          (OnStopRound(id) /\ Known(state, id)) =>
            CASE state.status = "PLAYING" ->
                    state'.status = "REVIEW" /\ state'.stoppedBy = id
              [] state.status = "REVIEW" ->
                    /\ state' = state
                    /\ out'.kind = "ERROR"
                    /\ out'.message = "InvalidPhase"
              [] OTHER -> TRUE
      ]_vars

\* C6: START_GAME succeeds only for the host in LOBBY or RESULTS; from anyone
\* else, or in PLAYING or REVIEW, it fails with Unauthorized and leaves the
\* room state unchanged.
C6_StartGameGuard ==
    [][ \A id \in PlayerIds, idx \in RandomIndices :
          OnStartGame(id, idx) =>
            IF IsHost(state, id) /\ state.status \in {"LOBBY", "RESULTS"}
            THEN state'.status = "PLAYING"
            ELSE /\ state' = state
                 /\ out'.kind = "ERROR"
                 /\ out'.message = "Unauthorized"
      ]_vars

\* the message of sender is one the specification rejects
RejectedStartGame(id) == ~IsHost(state, id) \/ state.status \in {"PLAYING", "REVIEW"}
RejectedStopRound(id) == ~Known(state, id) \/ state.status # "PLAYING"
RejectedSubmit(id) == ~Known(state, id) \/ state.status # "PLAYING"
RejectedKick(id, target) == ~IsHost(state, id) \/ id = target

\* C7: a rejected action sends an ERROR to its sender only; the room state,
\* the stored blob and the armed alarm are unchanged and no UPDATE_STATE is
\* broadcast.
C7_RejectedIsUnicastError ==
    [][ \A id \in PlayerIds :
          ( \/ \E idx \in RandomIndices : OnStartGame(id, idx) /\ RejectedStartGame(id)
            \/ OnStopRound(id) /\ RejectedStopRound(id)
            \/ \E partial \in Partials : OnSubmitAnswers(id, partial) /\ RejectedSubmit(id)
            \/ \E target \in PlayerIds : OnKickPlayer(id, target) /\ RejectedKick(id, target) )
          => /\ out'.kind = "ERROR"
             /\ out'.to = id
             /\ UNCHANGED <<state, stored, alarm>>
      ]_vars

Hosts(s) == {i \in DOMAIN s.players : s.players[i].isHost}
ConnectedPlayers(s) == {i \in DOMAIN s.players : s.players[i].isConnected}

\* C9: at most one player is host, and whenever a player is connected
\* exactly one connected player is host.
C9_OneConnectedHost ==
    /\ Cardinality(Hosts(state)) <= 1
    /\ ConnectedPlayers(state) # {} =>
          Cardinality(Hosts(state) \cap ConnectedPlayers(state)) = 1

\* the players other than id that are connected, by index
Remaining(s, id) == {i \in ConnectedPlayers(s) : s.players[i].id # id}

DistinctIds(s) ==
    \A i, j \in DOMAIN s.players : s.players[i].id = s.players[j].id => i = j

\* C11: after any sequence of joins the player ids are pairwise distinct, and
\* a join with a known id adds no entry, changes nothing of the other players
\* and leaves the player connected (isConnected = true).
C11_JoinIsIdempotentOnId ==
    /\ []DistinctIds(state)
    /\ [][ \A id \in PlayerIds, name \in Names :
             (OnConnect(id, name) /\ Known(state, id)) =>
                LET i == FindIndex(state.players, id) IN
                /\ Len(state'.players) = Len(state.players)
                /\ \A j \in DOMAIN state.players :
                      j # i => state'.players[j] = state.players[j]
                /\ state'.players[i].id = id
                /\ state'.players[i].name = name
                /\ state'.players[i].isConnected
         ]_vars

\* C12: no vote set contains its own target, and a TOGGLE_VOTE of a player on
\* itself fails with SelfVote and leaves the votes (and the state) unchanged.
C12_NoSelfVote ==
    /\ [](\A p \in PlayerIds, c \in Categories : p \notin state.votes[p][c])
    /\ [][ \A id \in PlayerIds, c \in Categories :
             OnToggleVote(id, id, c) =>
                /\ out'.kind = "ERROR"
                /\ out'.message = "SelfVote"
                /\ out'.to = id
                /\ state' = state
         ]_vars

\* C12 witness: votes have been cast in the review, then a player's vote on
\* its own answer was refused
C12_Witness ==
    /\ out.op = "TOGGLE_VOTE"
    /\ out.kind = "ERROR"
    /\ out.message = "SelfVote"
    /\ state.status = "REVIEW"
    /\ \E p \in PlayerIds, c \in Categories : Cardinality(state.votes[p][c]) = 2

\* the arguments and the inputs of the evaluation recorded in out
JudgedAnswer == AnswerOf(state, out.to, out.payload[2])
JudgedVoteCount == Cardinality(VotesOf(state, out.to, out.payload[2]))

ReviewDue ==
    /\ state.status = "REVIEW"
    /\ state.timers.votingEndsAt # NoDeadline
    /\ now >= state.timers.votingEndsAt

\* the points of a player's answers of the round, category by category
RECURSIVE RoundPoints(_, _, _)
RoundPoints(s, playerId, cats) ==
    IF cats = {} THEN 0
    ELSE LET c == CHOOSE x \in cats : TRUE
             r == GetPlayerStatus(s, c, playerId, c)
             points == CASE r.state = "VALID" -> 100
                         [] r.state = "DUPLICATE" -> 50
                         [] OTHER -> 0
         IN points + RoundPoints(s, playerId, cats \ {c})

ResultsDue ==
    /\ state.status = "RESULTS"
    /\ state.timers.resultsEndsAt # NoDeadline
    /\ now >= state.timers.resultsEndsAt

\* C15: while rounds remain, RESULTS has its deadline armed and the alarm at
\* that deadline starts the next round without a host request; once
\* roundsPlayed has reached totalRounds no alarm moves the room out of RESULTS.
C15_AutoAdvanceWhileRoundsRemain ==
    /\ []( (state.status = "RESULTS"
              /\ state.roundsPlayed < state.config.totalRounds)
           => (alarm # NoDeadline /\ alarm = state.timers.resultsEndsAt) )
    /\ [][ \A idx \in RandomIndices :
             /\ (OnAlarm(idx) /\ ResultsDue) =>
                  IF state.roundsPlayed < state.config.totalRounds
                  THEN /\ state'.status = "PLAYING"
                       /\ state'.timers.roundEndsAt = now + state.config.roundDuration
                       /\ state'.roundsPlayed = state.roundsPlayed
                  ELSE state' = state
             /\ (OnAlarm(idx) /\ state.status = "RESULTS"
                   /\ state.roundsPlayed >= state.config.totalRounds)
                  => state'.status = "RESULTS"
         ]_vars

\* C15 witness: all the rounds are played, the results alarm has fired and
\* the room is still in RESULTS
C15_Witness ==
    /\ out = Silent("onAlarm")
    /\ state.status = "RESULTS"
    /\ state.roundsPlayed = state.config.totalRounds
    /\ state.timers.resultsEndsAt # NoDeadline
    /\ now >= state.timers.resultsEndsAt

\* the answers of a and b in category c have equal, non-blank comparison keys
SameKey(s, a, b, c) ==
    /\ Trim(AnswerOf(s, a, c)) # <<>>
    /\ Trim(AnswerOf(s, b, c)) # <<>>
    /\ Normalize(AnswerOf(s, a, c)) = Normalize(AnswerOf(s, b, c))

IsConnected(s, id) ==
    LET i == FindIndex(s.players, id) IN i # 0 /\ s.players[i].isConnected

\* C16: connected players holding answers with equal comparison keys in a
\* category are each classified DUPLICATE with 50 points for that category
\* unless rejected, whichever joined first; when the review is resolved with
\* no vote cast each of them gains 50 for the category and the room is in
\* RESULTS with the round counted.
C16_DuplicatesScoreFiftyEach ==
    /\ []( ( /\ out.op = "getPlayerStatus"
             /\ out.kind # "REJECTED"
             /\ IsConnected(state, out.to)
             /\ \E b \in ScoreIds :
                   /\ b # out.to
                   /\ IsConnected(state, b)
                   /\ SameKey(state, out.to, b, out.payload[2]) )
           => (out.kind = "DUPLICATE" /\ out.payload[3] = 50) )
    /\ [][ \A idx \in RandomIndices, a, b \in PlayerIds :
             ( /\ OnAlarm(idx) /\ ReviewDue
               /\ a # b
               /\ IsConnected(state, a) /\ IsConnected(state, b)
               /\ \A c \in Categories : SameKey(state, a, b, c)
               /\ state.votes = NoVotes )
             => /\ state'.status = "RESULTS"
                /\ state'.roundsPlayed = state.roundsPlayed + 1
                /\ LET i == FindIndex(state.players, a) IN
                     state'.players[i].score =
                        state.players[i].score + 50 * Cardinality(Categories)
         ]_vars

\* C17: a non-blank answer whose votes reach the threshold is REJECTED with 0
\* points even when another player holds the same answer; DUPLICATE (50) and
\* VALID (100) go only to non-blank answers below the threshold.
C17_RejectedBeforeDuplicate ==
    out.op = "getPlayerStatus" =>
        /\ (Trim(JudgedAnswer) # <<>> /\ JudgedVoteCount >= RejectionThreshold(state))
              => (out.kind = "REJECTED" /\ out.payload[3] = 0)
        /\ out.kind \in {"DUPLICATE", "VALID"}
              => /\ Trim(JudgedAnswer) # <<>>
                 /\ JudgedVoteCount < RejectionThreshold(state)
                 /\ out.payload[3] = (IF out.kind = "DUPLICATE" THEN 50 ELSE 100)

\* C17 witness: p1's answer has the votes of a majority and equals p2's answer
\* in the category judged, which is the one on display: it is REJECTED
C17_Witness ==
    /\ out.op = "getPlayerStatus"
    /\ out.to = "p1"
    /\ out.payload[1] = out.payload[2]
    /\ SameKey(state, "p1", "p2", out.payload[2])
    /\ JudgedVoteCount >= RejectionThreshold(state)
    /\ out.kind = "REJECTED"
    /\ out.payload[3] = 0

\* C18: the classification and the points of (player, category) depend only on
\* that category's answers and votes: the result returned for them is the one
\* returned with any other category on display.
C18_IndependentOfDisplayedCategory ==
    out.op = "getPlayerStatus" =>
        \A cur \in ScoreCategories :
            LET r == GetPlayerStatus(state, cur, out.to, out.payload[2]) IN
            /\ r.state = out.kind
            /\ r.score = out.payload[3]

\* C19: a SUBMIT_ANSWERS in PLAYING by a known player sets the categories of
\* the payload in that player's answers and leaves its other categories, the
\* other players' answers, the status, the timers and the rest of the state as
\* they were; the same payload applied again changes nothing.
C19_SubmitMergesIdempotently ==
    [][ \A id \in RoundIds, partial \in SubmitPartials :
          ( /\ OnSubmitAnswers(id, partial) \/ HandleSubmitAnswers(id, partial)
            /\ state.status = "PLAYING"
            /\ Known(state, id) )
          => /\ \A c \in DOMAIN state.answers[id] :
                   state'.answers[id][c] =
                      IF c \in DOMAIN partial THEN partial[c] ELSE state.answers[id][c]
             /\ \A q \in DOMAIN state.answers :
                   q # id => state'.answers[q] = state.answers[q]
             /\ state'.status = state.status
             /\ state'.timers = state.timers
             /\ [state' EXCEPT !.answers = state.answers] = state
             /\ SubmitAnswers(state', id, partial) = Accept(state')
      ]_vars

\* C19 witness: p1 holds "Gato" in Color from one payload and "Foca" in Fruta
\* from another, p2's answers are its own, the round is still in play
C19_Witness ==
    /\ out.op = "SUBMIT_ANSWERS"
    /\ out.kind = "UPDATE_STATE"
    /\ state.status = "PLAYING"
    /\ state.answers["p1"] = [Color |-> <<"G", "a", "t", "o">>,
                              Fruta |-> <<"F", "o", "c", "a">>]
    /\ state.answers["p2"] = [Color |-> <<>>, Fruta |-> <<"G", "a", "t", "o">>]

\* a blob that has every field of a RoomState
WellFormed(b) == DOMAIN b = DOMAIN InitialState

\* C20: right after an activation, before any action, the room state is the
\* stored RoomState if one is stored, and the fresh LOBBY state with no players
\* if nothing is stored or the stored blob is malformed.
C20_HydrateOrFreshLobby ==
    out.op = "onStart" =>
        IF stored # <<>> /\ WellFormed(stored[1])
        THEN state = stored[1]
        ELSE state = InitialState /\ state.status = "LOBBY" /\ state.players = <<>>

\* C21: kickPlayer asked by a player that is not the host fails with
\* Unauthorized: the player list and the rest of the room state are as before,
\* nothing is persisted and no UPDATE_STATE is broadcast.
C21_NonHostKickRejected ==
    [][ \A id \in PlayerIds, target \in PlayerIds :
          (OnKickPlayer(id, target) /\ ~IsHost(state, id))
          => /\ state'.players = state.players
             /\ state' = state
             /\ stored' = stored
             /\ out'.kind = "ERROR"
             /\ out'.message = "Unauthorized"
             /\ out'.to = id
      ]_vars

\* a connected non-host asked to kick another listed player and was refused
C21_Witness ==
    /\ out.op = "KICK_PLAYER"
    /\ out.kind = "ERROR"
    /\ out.message = "Unauthorized"
    /\ Known(state, out.to)
    /\ ~IsHost(state, out.to)
    /\ \E i \in DOMAIN state.players :
          state.players[i].id # out.to /\ state.players[i].isHost

C25_ResultsAreNotModified ==
    (out.kind = "RETURN" /\ Len(out.payload) = 3 /\ out.payload[1] # out.payload[3])
    => /\ out.to # out.payload[2]
       /\ ReadThrough(out.payload[2], state) = out.payload[3]

\* C26: after every handler that changed the room state, the join of a
\* connect and the disconnect of a close included, the stored blob equals the
\* state in memory.
C26_StoredEqualsMemory ==
    [][ state' # state => stored' = <<state'>> ]_vars

\* C27: one deadline at most is armed, and after every handler that changed
\* the room and left it in PLAYING, REVIEW or RESULTS the armed deadline is the
\* timer of the status the room is now in.
C27_ArmedDeadlineIsCurrentTimer ==
    [][ (state' # state /\ state'.status \in {"PLAYING", "REVIEW", "RESULTS"})
          => /\ alarm' # NoDeadline
             /\ alarm' = CurrentDeadline(state')
      ]_vars

\* the record of a listed player
PlayerOf(s, id) == s.players[FindIndex(s.players, id)]

\* C28: the close of a connection only marks its player as not connected (and
\* moves the host flag): the record, its score and its answers stay; a later
\* join with the same id marks it connected again and keeps the score.
C28_DisconnectKeepsRejoinRestores ==
    [][ \A id \in RoundIds :
          /\ (OnClose(id) /\ Known(state, id))
                => /\ Known(state', id)
                   /\ Len(state'.players) = Len(state.players)
                   /\ ~PlayerOf(state', id).isConnected
                   /\ PlayerOf(state', id).score = PlayerOf(state, id).score
                   /\ state'.answers = state.answers
          /\ \A name \in Names :
                (OnConnect(id, name) /\ Known(state, id))
                => /\ Len(state'.players) = Len(state.players)
                   /\ PlayerOf(state', id).isConnected
                   /\ PlayerOf(state', id).score = PlayerOf(state, id).score
      ]_vars

\* C29: the letter of the round is set exactly while the room is in PLAYING,
\* REVIEW or RESULTS, and is null in LOBBY, after a reset and after the room
\* emptied included.
C29_LetterIffRound ==
    (state.currentLetter # NoLetter)
        <=> (state.status \in {"PLAYING", "REVIEW", "RESULTS"})

\* C30: the score of a player never goes down from one state to the next
\* except to 0 at a reset; joins, rejoins, disconnects, startGame,
\* submitAnswers, stopRound, toggleVote and stale alarms leave it as it is, and
\* it changes only when the alarm resolves a REVIEW into RESULTS.
C30_ScoreOnlyGrowsAtResolution ==
    [][ \A id \in RoundIds :
          (Known(state, id) /\ Known(state', id)) =>
            /\ PlayerOf(state', id).score < PlayerOf(state, id).score
                  => /\ \E r \in RoundIds : HandleAdminReset(r)
                     /\ PlayerOf(state', id).score = 0
            /\ PlayerOf(state', id).score # PlayerOf(state, id).score
                  => \/ out'.op = "ADMIN_RESET"
                     \/ /\ out'.op = "onAlarm"
                        /\ state.status = "REVIEW"
                        /\ state'.status = "RESULTS"
      ]_vars

\* the alarm has resolved the second round: it added points to the 100 that
\* p1 had and left p2, who scored nothing in it, at 50
C30_Witness ==
    /\ out.op = "onAlarm"
    /\ state.status = "RESULTS"
    /\ state.roundsPlayed = 2
    /\ Known(state, "p1") /\ PlayerOf(state, "p1").score > 100
    /\ Known(state, "p2") /\ PlayerOf(state, "p2").score = 50

\* C31: when the last player is removed, in whatever phase, the room is back
\* in LOBBY with no letter, no answers, no votes and no round played.
C31_EmptyRoomIsFreshLobby ==
    [][ (Len(state.players) > 0 /\ Len(state'.players) = 0)
          => /\ state'.status = "LOBBY"
             /\ state'.currentLetter = NoLetter
             /\ state'.answers = NoAnswers
             /\ state'.votes = NoVotes
             /\ state'.roundsPlayed = 0
      ]_vars

\* the other of the two players whose answers are judged
Rival(id) == IF id = "p1" THEN "p2" ELSE "p1"

\* C32: the comparison key ignores surrounding spaces, case and accents: the
\* spellings of one word have one key, a key normalized again is the same
\* key, and two players who gave spellings of one word in a category are each
\* classified DUPLICATE in it.
C32_KeyIgnoresSpellingAndIsStable ==
    /\ \A w \in CafeWords : Normalize(w) = <<"c", "a", "f", "e">>
    /\ out.op = "normalize" => Normalize(out.payload[3]) = out.payload[3]
    /\ ( /\ out.op = "getPlayerStatus"
         /\ AnswerOf(state, out.to, out.payload[2]) \in CafeWords
         /\ AnswerOf(state, Rival(out.to), out.payload[2]) \in CafeWords )
       => out.kind = "DUPLICATE"

\* C33: a startGame of the host in LOBBY or RESULTS puts the room in PLAYING
\* with one of the 26 letters, no answers, no votes, no stoppedBy and
\* roundEndsAt = now + roundDuration, and leaves the players with their
\* scores, roundsPlayed and the configuration as they were.
C33_StartGameEffect ==
    [][ \A id \in PlayerIds, idx \in RandomIndices :
          ( /\ OnStartGame(id, idx)
            /\ IsHost(state, id)
            /\ state.status \in {"LOBBY", "RESULTS"} )
          => /\ state'.status = "PLAYING"
             /\ \E k \in 1..26 : state'.currentLetter = Alphabet[k]
             /\ state'.answers = NoAnswers
             /\ state'.votes = NoVotes
             /\ state'.stoppedBy = NoPlayer
             /\ state'.timers.roundEndsAt = now + state.config.roundDuration
             /\ state'.players = state.players
             /\ state'.roundsPlayed = state.roundsPlayed
             /\ state'.config = state.config
      ]_vars

C35_ToggleVoteIsInvolution ==
    [][ \A v \in PlayerIds, target \in PlayerIds, c \in Categories :
          OnToggleVote(v, target, c) =>
            IF /\ state.status = "REVIEW"
               /\ v # target
               /\ Known(state, v) /\ Known(state, target)
            THEN /\ state'.votes[target][c] =
                       IF v \in state.votes[target][c]
                       THEN state.votes[target][c] \ {v}
                       ELSE state.votes[target][c] \cup {v}
                 /\ \A p \in PlayerIds, d \in Categories :
                       (p # target \/ d # c) => state'.votes[p][d] = state.votes[p][d]
                 /\ state'.status = state.status
                 /\ state'.timers = state.timers
                 /\ alarm' = alarm
                 /\ ToggleVote(state', v, target, c).state.votes = state.votes
            ELSE state'.votes = state.votes
      ]_vars

\* a vote was cast and the same toggle has just taken it back: no vote is left
C35_Witness ==
    /\ out.op = "TOGGLE_VOTE"
    /\ out.kind = "UPDATE_STATE"
    /\ state.status = "REVIEW"
    /\ state.votes = NoVotes

C37_BlankIsEmptyAndNeverMatches ==
    out.op = "getPlayerStatus" =>
        /\ Trim(AnswerOf(state, out.to, out.payload[2])) = <<>>
              => (out.kind = "EMPTY" /\ out.payload[3] = 0)
        /\ out.kind = "DUPLICATE"
              => \E i \in DOMAIN state.players :
                    /\ state.players[i].id # out.to
                    /\ Trim(AnswerOf(state, state.players[i].id, out.payload[1])) # <<>>
                    /\ Normalize(AnswerOf(state, state.players[i].id, out.payload[1]))
                          = Normalize(AnswerOf(state, out.to, out.payload[2]))

\* C38: an answer is DUPLICATE only if its key is that of an answer given in
\* the same category by another player who is connected; an equal answer held
\* only by a disconnected player leaves it VALID.
C38_DuplicateNeedsConnectedRival ==
    ( /\ out.op = "getPlayerStatus"
      /\ out.payload[1] = out.payload[2]
      /\ out.kind = "DUPLICATE" )
    => \E i \in DOMAIN state.players :
          /\ state.players[i].id # out.to
          /\ state.players[i].isConnected
          /\ AnswerOf(state, state.players[i].id, out.payload[2]) # <<>>
          /\ Normalize(AnswerOf(state, state.players[i].id, out.payload[2]))
                = Normalize(AnswerOf(state, out.to, out.payload[2]))

C40_ConnectedIffHeldSocketOpen ==
    state.isConnected <=>
        (/\ state.socket # NoSocket
         /\ state.readyState[state.socket] = "OPEN")

====
